---- MODULE Spec2Model ----
(***************************************************************************)
(* Model of music_rec_app: the recommendation pipeline                     *)
(* (core/recommend_service.py), its three provider clients                 *)
(* (core/providers/*.py), the query parser (utils/text.py) and the TTL     *)
(* cache the iTunes and MusicBrainz clients go through.                    *)
(*                                                                         *)
(* Text is a sequence of one-character strings.  The absent value (Python  *)
(* None) of an optional text is the one-element sequence None, whose       *)
(* element is no character.  A float is modelled by the integer number of  *)
(* halves it holds: 2 is 1.0, -1 is -0.5, -2 is -1.0.                      *)
(***************************************************************************)
EXTENDS Integers, Sequences, FiniteSets, TLC

\* ------------------------------------------------------------------------
\* Bounds of the model
\* ------------------------------------------------------------------------
MaxSimilar == 2     \* longest list a similar-tracks / similar-artists call returns
MaxTop == 2         \* longest list a top-tracks call returns
MaxLimit == 2       \* the limit_tracks requests are made with
MaxSort == 3        \* longest list the sort is applied to on its own
MaxItems == 2       \* longest item list a worker hands to the window
MaxSearches == 2    \* searches started in one run of the window
MaxTokens == 5      \* longest input of the parser, in tokens
MaxTicks == 3       \* how often the clock advances

\* ------------------------------------------------------------------------
\* Text (utils/text.py)
\* ------------------------------------------------------------------------
None == <<"<None>">>
SP == " "
TAB == "<tab>"
EmDash == "<em-dash>"
EnDash == "<en-dash>"

IsSpace(c) == c \in {SP, TAB}

\* Python truthiness of an optional text: None and "" are falsy.
Truthy(s) == s # None /\ s # <<>>

\* Python `a or b` on optional texts.
PyOr(a, b) == IF Truthy(a) THEN a ELSE b

RECURSIVE LStrip(_)
LStrip(s) == IF s # <<>> /\ IsSpace(Head(s)) THEN LStrip(Tail(s)) ELSE s

RECURSIVE RStrip(_)
RStrip(s) ==
    IF s # <<>> /\ IsSpace(s[Len(s)]) THEN RStrip(SubSeq(s, 1, Len(s) - 1)) ELSE s

\* str.strip()
Strip(s) == RStrip(LStrip(s))

\* re.sub(r"\s+", " ", s): every maximal run of whitespace becomes one space.
RECURSIVE SubSpaces(_)
SubSpaces(s) ==
    IF s = <<>> THEN <<>>
    ELSE IF IsSpace(Head(s)) THEN <<SP>> \o SubSpaces(LStrip(s))
    ELSE <<Head(s)>> \o SubSpaces(Tail(s))

normalize_space(s) == SubSpaces(Strip(IF s = None THEN <<>> ELSE s))

\* re.IGNORECASE on the letters of the word "by".
LowerChar(c) == CASE c = "B" -> "b" [] c = "Y" -> "y" [] OTHER -> c

\* Positions i at which ^(.+?)\s+by\s+(.+)$ can end its track group: the
\* track is t[1..i], followed by whitespace, "by", whitespace and a non-empty
\* rest.  t is normalized, so every whitespace run is a single space.
ByEnds(t) ==
    {i \in 1..Len(t) :
        /\ Len(t) >= i + 5
        /\ IsSpace(t[i + 1])
        /\ LowerChar(t[i + 2]) = "b"
        /\ LowerChar(t[i + 3]) = "y"
        /\ IsSpace(t[i + 4])}

Min(S) == CHOOSE x \in S : \A y \in S : x <= y

\* Positions at which the three-character separator <<SP, d, SP>> starts.
SepAt(t, d) ==
    {i \in 1..Len(t) : Len(t) >= i + 2 /\ t[i] = SP /\ t[i + 1] = d /\ t[i + 2] = SP}

\* t.split(sep, 1) at the first occurrence, both sides normalized.
SplitAt(t, d) ==
    LET i == Min(SepAt(t, d))
    IN  <<normalize_space(SubSeq(t, 1, i - 1)), normalize_space(SubSeq(t, i + 3, Len(t)))>>

\* As Separators, the em dash tried first.
Separators_EmDashFirst == <<EmDash, "-", EnDash>>

Separators == <<"-", EmDash, EnDash>>

\* The for loop over the separators, from the k-th one on.
RECURSIVE SplitFrom(_, _)
SplitFrom(t, k) ==
    IF k > Len(Separators) THEN <<None, t>>
    ELSE IF SepAt(t, Separators[k]) # {}
              /\ SplitAt(t, Separators[k])[1] # <<>>
              /\ SplitAt(t, Separators[k])[2] # <<>>
         THEN SplitAt(t, Separators[k])
         ELSE SplitFrom(t, k + 1)

\* As parse_user_query, a text that holds no "by" and no separator being
\* taken for the track.
parse_user_query_ChunkAsTrack(text) ==
    LET t == normalize_space(text)
        r == IF ByEnds(t) # {}
             THEN LET i == Min(ByEnds(t))
                  IN  <<normalize_space(SubSeq(t, 1, i)),
                        normalize_space(SubSeq(t, i + 5, Len(t)))>>
             ELSE SplitFrom(t, 1)
    IN  IF t = <<>> THEN <<None, None>>
        ELSE IF r[1] = None THEN <<r[2], None>> ELSE r

\* parse_user_query: <<track, artist>>
parse_user_query(text) ==
    LET t == normalize_space(text)
    IN  IF t = <<>> THEN <<None, None>>
        ELSE IF ByEnds(t) # {}
             THEN LET i == Min(ByEnds(t))
                  IN  <<normalize_space(SubSeq(t, 1, i)),
                        normalize_space(SubSeq(t, i + 5, Len(t)))>>
             ELSE SplitFrom(t, 1)

\* ------------------------------------------------------------------------
\* Optional values
\* ------------------------------------------------------------------------
\* An optional URL or tag is a string; NoUrl is Python None.
NoUrl == "<None>"
UrlTruthy(u) == u \notin {NoUrl, ""}

\* An optional float.
NoFloat == [present |-> FALSE, val |-> 0]
Float(n) == [present |-> TRUE, val |-> n]

\* The "match" field of a provider record: missing, a number, or text that
\* float() rejects.
NoMatch == [kind |-> "none", val |-> 0]
BadMatch == [kind |-> "bad", val |-> 0]
NumMatch(n) == [kind |-> "num", val |-> n]

\* The float -1.0 that _sort_items uses for an absent similarity.
MinusOne == -2

\* As _safe_float, with 0.0 where the value is missing or not a number.
_safe_float_MissingAsZero(x) == IF x.kind = "num" THEN Float(x.val) ELSE Float(0)

_safe_float(x) == IF x.kind = "num" THEN Float(x.val) ELSE NoFloat

\* ------------------------------------------------------------------------
\* TTL cache (utils/cache.py)
\* ------------------------------------------------------------------------
TTL == 600

\* A stored or fetched JSON value; JNull is Python None.
JNull == [tag |-> "null", body |-> <<>>]
JData(list) == [tag |-> "data", body |-> list]

\* A failed network request (timeout, non-2xx status, error payload).
NetFail == [tag |-> "fail", body |-> <<>>]

CacheGet(c, k, t) ==
    IF k \in DOMAIN c /\ ~(t > c[k].expiresAt) THEN c[k].value ELSE JNull

CacheSet(c, k, v, t) ==
    [x \in (DOMAIN c) \cup {k} |->
        IF x = k THEN [value |-> v, expiresAt |-> t + TTL] ELSE c[x]]

\* ------------------------------------------------------------------------
\* Cache keys of the provider clients
\* ------------------------------------------------------------------------
\* MusicBrainzClient._get: "mb:" + endpoint + "?" + the sorted parameters.
RecordingKey(track, artist) ==
    <<"mb:recording/?fmt=json&limit=3&query=recording:\"">> \o track
        \o <<"\" AND artist:\"">> \o artist \o <<"\"">>

ArtistKey(artist) ==
    <<"mb:artist/?fmt=json&limit=3&query=artist:\"">> \o artist \o <<"\"">>

\* ITunesClient.search_track: term = f"{track} {artist}".strip()
ITunesKey(track, artist) ==
    <<"itunes:country=KR&entity=song&limit=1&media=music&term=">>
        \o Strip(track \o <<SP>> \o artist)

\* ------------------------------------------------------------------------
\* What the providers can answer
\* ------------------------------------------------------------------------
Texts ==
    { <<>>,
      <<SP, TAB>>,
      <<"q", TAB, SP, "r">>,
      <<"t", SP, "-", SP, "q">> }

\* Top result of a MusicBrainz recording search: title and first
\* artist-credit name, each possibly missing.
Recordings ==
    { [title |-> <<SP, "T">>, name |-> None],
      [title |-> None, name |-> <<"Q", SP, SP, "R">>] }

RecordingResponses == {JData(<<>>)} \cup {JData(<<r>>) : r \in Recordings}

\* Top result of a MusicBrainz artist search: a name with a blank at its end,
\* or a name of one blank.
Artists == { [name |-> <<"Q", SP>>], [name |-> <<SP>>] }

ArtistResponses == {JData(<<>>)} \cup {JData(<<a>>) : a \in Artists}

\* Entries of track.getSimilar.
SimilarTracks ==
    { [name |-> <<"x">>, artist |-> <<"A">>, match |-> NumMatch(2)],
      [name |-> <<"y">>, artist |-> <<"A">>, match |-> BadMatch],
      [name |-> <<"x">>, artist |-> None, match |-> NumMatch(2)],
      [name |-> <<>>, artist |-> <<"A">>, match |-> NoMatch] }

\* Entries of artist.getSimilar.
SimilarArtists ==
    { [name |-> <<"A">>, match |-> NumMatch(2)],
      [name |-> <<"B">>, match |-> NoMatch],
      [name |-> None, match |-> NumMatch(2)] }

\* Entries of artist.getTopTracks.
TopTracks ==
    { [name |-> <<"x">>, artist |-> None],
      [name |-> <<"y">>, artist |-> <<"C">>],
      [name |-> None, artist |-> <<"C">>] }

\* All lists of at most n elements of S.
RECURSIVE ListsUpTo(_, _)
ListsUpTo(S, n) ==
    IF n = 0 THEN {<<>>}
    ELSE LET shorter == ListsUpTo(S, n - 1)
         IN  shorter \cup {Append(l, x) : l \in shorter, x \in S}

\* Answers of a tag call: a failure or a list of tag names.
TagLists == {<<>>, <<"pop", "dance">>}
TagFail == <<"<fail>">>
TagAnswers == TagLists \cup {TagFail}

\* Answers of the iTunes search: failure, no match, or the first result.
Hit(p, a, v) == [tag |-> "hit", body |-> <<[previewUrl |-> p, artworkUrl100 |-> a, trackViewUrl |-> v]>>]
Hits == { Hit("http://p", "http://a", "http://v"), Hit(NoUrl, "http://a", "http://v") }

\* ------------------------------------------------------------------------
\* State
\* ------------------------------------------------------------------------
VARIABLES
    pc,               \* position of the request inside RecommendService.recommend
    user_text,        \* recommend's arguments
    limit_tracks,
    raw,              \* locals of recommend
    track,
    artist,
    resolved_track,
    fallback_artist,
    resolved_artist,
    phase,            \* "track" inside _recommend_by_track, "fallback" inside _recommend_by_artist_fallback
    raws,             \* _recommend_by_track: the similar tracks not yet visited
    idx,              \*   and the enumerate() index of the first of them
    sim_artists,      \* _recommend_by_artist_fallback: the similar artists from the current one on
    top_tracks,       \*   the current artist's top tracks not yet visited
    rank,
    items,            \* the list under construction
    pIdx,             \* loop position of _attach_preview
    result,           \* the RecommendResult returned
    cache,            \* the TTLCache shared by the iTunes and MusicBrainz clients
    now,              \* the clock
    calls,            \* provider methods called by this request
    raisedBy,         \* the provider method whose failure recommend let through
    cacheOps,         \* cache operations made by this request
    validReturned,    \* how many entries of the track.getSimilar answer had both names
    lastChain,        \* the tag lookups made by the step just taken
    probe,            \* per candidate, how its tag and enrichment lookups ended
    query_artist_tag_fetches, \* network requests made for the query artist's top tags
    lastAccess,       \* the cached accessor call just made, and what it found
    favs,             \* FavoritesStore: the items of favorites.json
    _fav_map,         \* MainWindow: the favorites held in memory
    _result,          \*   the RecommendResult shown, its items being the objects
    _all_items_cache, \*   the full list, as positions in _result.items
    _items,           \*   the displayed list, as positions in _result.items
    chk_favs_only,    \*   the favorites-only checkbox
    status,           \*   the text of the status label
    btn_search,       \*   whether the search button is enabled
    history,          \* SearchHistoryStore: the queries of history.json
    workers,          \* the RecommendWorkers started and not yet handled
    started,          \* how many workers have been started
    shownFrom,        \* the worker whose result was last taken over
    returned,         \* the caller of recommend: the result it holds, items being a list object
    heap,             \* the list objects of the results of earlier calls, by number
    lastFavOp         \* the FavoritesStore call just made, and the items before it

reqVars == <<user_text, limit_tracks, raw, track, artist>>
resVars == <<resolved_track, fallback_artist, resolved_artist>>
trkVars == <<raws, idx>>
fbVars == <<sim_artists, top_tracks, rank>>
envVars == <<cache, now>>
logVars == <<calls, raisedBy, cacheOps, validReturned>>

uiVars == <<favs, _fav_map, _result, _all_items_cache, _items, chk_favs_only,
            status, btn_search, history, workers, started, shownFrom, lastFavOp>>
svcVars == <<reqVars, resVars, phase, trkVars, fbVars, items, pIdx, result,
             logVars, lastChain, probe, query_artist_tag_fetches, returned, heap>>

vars == <<pc, svcVars, envVars, lastAccess, uiVars>>

NoResult ==
    [mode |-> "", resolved_track |-> None, resolved_artist |-> None,
     query_raw |-> <<>>, items |-> <<>>, message |-> ""]

\* The caller holds no result.
NoReturned ==
    [mode |-> "", resolved_track |-> None, resolved_artist |-> None,
     query_raw |-> <<>>, items |-> 0, message |-> ""]

\* No cached accessor has been called yet.
NoAccess ==
    [key |-> <<>>, stored |-> FALSE, storedAt |-> 0, storedValue |-> JNull,
     at |-> 0, served |-> "", value |-> JNull]

\* The state after RecommendService.__init__ and MainWindow.__init__, before
\* any request, but for the text that is put in.
FreshRest ==
    /\ raw = <<>>
    /\ track = None
    /\ artist = None
    /\ resolved_track = None
    /\ fallback_artist = None
    /\ phase = ""
    /\ raws = <<>>
    /\ idx = 0
    /\ sim_artists = <<>>
    /\ top_tracks = <<>>
    /\ rank = 0
    /\ pIdx = 0
    /\ result = NoResult
    /\ cache = <<>>
    /\ now = 0
    /\ calls = {}
    /\ raisedBy = ""
    /\ cacheOps = {}
    /\ validReturned = 0
    /\ lastChain = <<>>
    /\ probe = <<>>
    /\ query_artist_tag_fetches = 0
    /\ lastAccess = NoAccess
    /\ favs = <<>>
    /\ _fav_map = <<>>
    /\ _result = NoResult
    /\ _all_items_cache = <<>>
    /\ _items = <<>>
    /\ chk_favs_only = FALSE
    /\ status = "Ready"
    /\ btn_search = TRUE
    /\ history = <<>>
    /\ workers = {}
    /\ started = 0
    /\ shownFrom = 0
    /\ returned = NoReturned
    /\ heap = <<>>
    /\ lastFavOp = [op |-> "", track |-> None, artist |-> None, before |-> <<>>]

\* No request has been made.
NoRequest ==
    /\ limit_tracks = 0
    /\ resolved_artist = None

Fresh == user_text = <<>> /\ NoRequest /\ FreshRest

Init ==
    /\ pc = "idle"
    /\ items = <<>>
    /\ Fresh

\* ------------------------------------------------------------------------
\* Cached provider accessors
\* ------------------------------------------------------------------------
\* As CachedFetch, a failed request being stored like an answer.
CachedFetch_StoresFailure(k, Answers) ==
    LET cached == CacheGet(cache, k, now)
    IN  IF cached # JNull
        THEN {[ok |-> TRUE, data |-> cached, cache |-> cache, ops |-> {"get"}]}
        ELSE {[ok |-> FALSE, data |-> JNull, cache |-> CacheSet(cache, k, NetFail, now),
               ops |-> {"get"}]}
             \cup {[ok |-> TRUE, data |-> a, cache |-> CacheSet(cache, k, a, now),
                    ops |-> {"get", "set"}] : a \in Answers}

\* As CachedFetch, without the lookup: every call goes to the network.
CachedFetch_NoLookup(k, Answers) ==
    {[ok |-> FALSE, data |-> JNull, cache |-> cache, ops |-> {"get"}]}
    \cup {[ok |-> TRUE, data |-> a, cache |-> CacheSet(cache, k, a, now),
           ops |-> {"get", "set"}] : a \in Answers}

\* MusicBrainzClient._get and ITunesClient.search_track: what a call with
\* cache key k can do when the network can answer with any of Answers or
\* fail.  ok = FALSE: the call raised; data: the value returned; cache: the
\* cache afterwards.
CachedFetch(k, Answers) ==
    LET cached == CacheGet(cache, k, now)
    IN  IF cached # JNull
        THEN {[ok |-> TRUE, data |-> cached, cache |-> cache, ops |-> {"get"}]}
        ELSE {[ok |-> FALSE, data |-> JNull, cache |-> cache, ops |-> {"get"}]}
             \cup {[ok |-> TRUE, data |-> a, cache |-> CacheSet(cache, k, a, now),
                    ops |-> {"get", "set"}] : a \in Answers}

\* ------------------------------------------------------------------------
\* recommend
\* ------------------------------------------------------------------------
\* As EmptyInput, testing for None only: "" is not caught.
EmptyInput_NoneOnly(r) == r = None

\* `if not raw`
EmptyInput(r) == r = <<>>

\* `if track and artist`
TrackAttempted(t, a) == Truthy(t) /\ Truthy(a)

\* recommend, lines 19-27: normalize, return at once on empty input, parse.
Recommend ==
    /\ pc = "idle"
    /\ \E text \in Texts :
        LET r == normalize_space(text)
            p == parse_user_query(r)
        IN  /\ user_text' = text
            /\ limit_tracks' = MaxLimit
            /\ raw' = r
            /\ IF EmptyInput(r)
               THEN /\ result' = [NoResult EXCEPT !.mode = "none",
                                                  !.query_raw = text,
                                                  !.message = "empty input"]
                    /\ pc' = "done"
                    /\ UNCHANGED <<track, artist>>
               ELSE /\ track' = p[1]
                    /\ artist' = p[2]
                    /\ result' = result
                    /\ pc' = IF TrackAttempted(p[1], p[2])
                             THEN "resolve_track_artist" ELSE "resolve_artist"
    /\ UNCHANGED <<resVars, phase, trkVars, fbVars, items, pIdx, envVars,
                   logVars, lastChain, probe>>
    /\ UNCHANGED <<query_artist_tag_fetches, lastAccess, uiVars, returned, heap>>

\* As ResolvedTrackArtist, without `or track` and `or artist`.
ResolvedTrackArtist_NoDefault(t, a, o) ==
    IF o.ok /\ o.data.body # <<>>
    THEN LET best == o.data.body[1]
         IN  <<normalize_space(best.title), normalize_space(best.name)>>
    ELSE <<t, a>>

\* _resolve_track_artist, given what mb.search_recording did.
ResolvedTrackArtist(t, a, o) ==
    IF o.ok /\ o.data.body # <<>>
    THEN LET best == o.data.body[1]
         IN  <<normalize_space(PyOr(best.title, t)), normalize_space(PyOr(best.name, a))>>
    ELSE <<t, a>>

\* recommend, line 28.
ResolveTrackArtist ==
    /\ pc = "resolve_track_artist"
    /\ \E o \in CachedFetch(RecordingKey(track, artist), RecordingResponses) :
        /\ resolved_track' = ResolvedTrackArtist(track, artist, o)[1]
        /\ resolved_artist' = ResolvedTrackArtist(track, artist, o)[2]
        /\ cache' = o.cache
        /\ cacheOps' = cacheOps \cup o.ops
    /\ calls' = calls \cup {"mb.search_recording"}
    /\ pc' = "track_get_similar"
    /\ UNCHANGED <<reqVars, fallback_artist, phase, trkVars, fbVars, items, pIdx,
                   result, now, raisedBy, validReturned, lastChain, probe>>
    /\ UNCHANGED <<query_artist_tag_fetches, lastAccess, uiVars, returned, heap>>

\* As ValidTrack, testing the track name only.
ValidTrack_NameOnly(r) == Truthy(r.name)

\* `if not name or not art: continue`
ValidTrack(r) == Truthy(r.name) /\ Truthy(r.artist)

RECURSIVE CountValid(_)
CountValid(list) ==
    IF list = <<>> THEN 0
    ELSE (IF ValidTrack(Head(list)) THEN 1 ELSE 0) + CountValid(Tail(list))

\* _recommend_by_track, line 152: the similar-tracks call is not guarded.
TrackGetSimilar ==
    /\ pc = "track_get_similar"
    /\ calls' = calls \cup {"lastfm.track_get_similar"}
    /\ \/ /\ raisedBy' = "lastfm.track_get_similar"
          /\ pc' = "raised"
          /\ UNCHANGED <<phase, trkVars, items, probe, validReturned>>
       \/ \E answer \in ListsUpTo(SimilarTracks, MaxSimilar) :
            /\ raws' = answer
            /\ idx' = 1
            /\ items' = <<>>
            /\ probe' = <<>>
            /\ phase' = "track"
            /\ pc' = "track_loop"
            /\ raisedBy' = raisedBy
            /\ validReturned' = CountValid(answer)
    /\ UNCHANGED <<reqVars, resVars, fbVars, pIdx, result, envVars, cacheOps,
                   lastChain>>
    /\ UNCHANGED <<query_artist_tag_fetches, lastAccess, uiVars, returned, heap>>

FirstN(s, n) == SubSeq(s, 1, IF Len(s) < n THEN Len(s) ELSE n)

\* _reason
Reason(base, of, tags) == [base |-> base, of |-> of, tags |-> FirstN(tags, 3)]

TrackRecommendation(t, a, rk, sim, tags, reason) ==
    [track |-> t, artist |-> a, rank |-> rk, similarity |-> sim,
     preview_url |-> NoUrl, artwork_url |-> NoUrl, itunes_url |-> NoUrl,
     tags |-> tags, reason |-> reason]

\* What is noted of a candidate when it is appended to items.
Emitted(t, a, rk, tags) ==
    [track |-> t, artist |-> a, rank |-> rk, tags |-> tags, enrich |-> "pending"]

\* Lines 164-167: a tag lookup that raises gives no tags.
TagsOrEmpty(answer) == IF answer = TagFail THEN <<>> ELSE answer

Attempt(method, key, answer) == [method |-> method, key |-> key, answer |-> answer]

\* One pass of the loop of _recommend_by_track, lines 155-177.
TrackLoopStep ==
    /\ pc = "track_loop"
    /\ raws # <<>>
    /\ LET r == Head(raws)
       IN  IF ~ValidTrack(r)
           THEN /\ lastChain' = <<>>
                /\ UNCHANGED <<items, probe, logVars>>
           ELSE \E answer \in TagAnswers :
                  /\ items' = Append(items,
                        TrackRecommendation(r.name, r.artist, idx, _safe_float(r.match),
                            TagsOrEmpty(answer),
                            Reason("Similar track based on Last.fm similarity", <<>>,
                                   TagsOrEmpty(answer))))
                  /\ probe' = Append(probe,
                        Emitted(r.name, r.artist, idx,
                                IF answer = TagFail THEN "failed" ELSE "ok"))
                  /\ lastChain' = <<Attempt("lastfm.track_get_toptags",
                                            <<r.name, r.artist>>, answer)>>
                  /\ calls' = calls \cup {"lastfm.track_get_toptags"}
                  /\ UNCHANGED <<raisedBy, cacheOps, validReturned>>
    /\ raws' = Tail(raws)
    /\ idx' = idx + 1
    /\ UNCHANGED <<pc, reqVars, resVars, phase, fbVars, pIdx, result, envVars>>
    /\ UNCHANGED <<query_artist_tag_fetches, lastAccess, uiVars, returned, heap>>

\* The loop is over: line 179 calls _attach_preview.
TrackLoopEnd ==
    /\ pc = "track_loop"
    /\ raws = <<>>
    /\ pc' = "attach_preview"
    /\ pIdx' = 1
    /\ idx' = 0
    /\ lastChain' = <<>>
    /\ UNCHANGED <<reqVars, resVars, phase, raws, fbVars, items, result,
                   envVars, logVars, probe>>
    /\ UNCHANGED <<query_artist_tag_fetches, lastAccess, uiVars, returned, heap>>

\* ------------------------------------------------------------------------
\* _attach_preview
\* ------------------------------------------------------------------------
\* Lines 92-98 for one item, given what itunes.search_track did.
WithPreview(it, o) ==
    IF o.ok /\ o.data # JNull
    THEN LET hit == o.data.body[1]
         IN  [it EXCEPT !.preview_url = hit.previewUrl,
                        !.artwork_url = hit.artworkUrl100,
                        !.itunes_url = hit.trackViewUrl]
    ELSE it

EnrichOutcome(o) == IF ~o.ok THEN "failed" ELSE IF o.data = JNull THEN "no match" ELSE "hit"

\* As AfterLookup, without the try: a failed lookup ends the request.
AfterLookup_Propagates(o) ==
    IF o.ok THEN [pc |-> "attach_preview", pIdx |-> pIdx + 1, raisedBy |-> raisedBy]
    ELSE [pc |-> "raised", pIdx |-> pIdx, raisedBy |-> "itunes.search_track"]

\* As AfterLookup, with `break` for `continue`: a failed lookup ends the loop.
AfterLookup_Breaks(o) ==
    IF o.ok THEN [pc |-> "attach_preview", pIdx |-> pIdx + 1, raisedBy |-> raisedBy]
    ELSE [pc |-> "attach_preview", pIdx |-> Len(items) + 1, raisedBy |-> raisedBy]

\* Lines 91-98: where the loop stands after the lookup o of item pIdx; the
\* except clause swallows a failure and the loop goes on with the next item.
AfterLookup(o) == [pc |-> "attach_preview", pIdx |-> pIdx + 1, raisedBy |-> raisedBy]

\* One pass of the loop of _attach_preview.
AttachPreviewStep ==
    /\ pc = "attach_preview"
    /\ pIdx <= Len(items)
    /\ \E o \in CachedFetch(ITunesKey(items[pIdx].track, items[pIdx].artist),
                            {JNull} \cup Hits) :
        /\ items' = [items EXCEPT ![pIdx] = WithPreview(@, o)]
        /\ probe' = [probe EXCEPT ![pIdx].enrich = EnrichOutcome(o)]
        /\ cache' = o.cache
        /\ cacheOps' = cacheOps \cup o.ops
        /\ pc' = AfterLookup(o).pc
        /\ pIdx' = AfterLookup(o).pIdx
        /\ raisedBy' = AfterLookup(o).raisedBy
    /\ calls' = calls \cup {"itunes.search_track"}
    /\ lastChain' = <<>>
    /\ UNCHANGED <<reqVars, resVars, phase, trkVars, fbVars, result, now,
                   validReturned>>
    /\ UNCHANGED <<query_artist_tag_fetches, lastAccess, uiVars, returned, heap>>

\* The loop is over: back in the caller, which returns items to recommend.
AttachPreviewEnd ==
    /\ pc = "attach_preview"
    /\ pIdx > Len(items)
    /\ pc' = IF phase = "track" THEN "track_done" ELSE "fallback_done"
    /\ pIdx' = 0
    /\ lastChain' = <<>>
    /\ UNCHANGED <<reqVars, resVars, phase, trkVars, fbVars, items, result,
                   envVars, logVars, probe>>
    /\ UNCHANGED <<query_artist_tag_fetches, lastAccess, uiVars, returned, heap>>

\* ------------------------------------------------------------------------
\* _sort_items
\* ------------------------------------------------------------------------
\* As SortKey, without the preview flag.
SortKey_IgnoresPreview(x) ==
    <<0, IF x.similarity.present THEN x.similarity.val ELSE MinusOne>>

\* As SortKey, with 0 for an absent similarity.
SortKey_AbsentAsZero(x) ==
    <<IF UrlTruthy(x.preview_url) THEN 1 ELSE 0,
      IF x.similarity.present THEN x.similarity.val ELSE 0>>

\* The sort key: (1 if x.preview_url else 0, similarity, or -1 when absent).
SortKey(x) ==
    <<IF UrlTruthy(x.preview_url) THEN 1 ELSE 0,
      IF x.similarity.present THEN x.similarity.val ELSE MinusOne>>

\* Tuple comparison of two keys.
KeyLess(k1, k2) == k1[1] < k2[1] \/ (k1[1] = k2[1] /\ k1[2] < k2[2])

\* list.sort(key=key, reverse=True) is stable: x goes behind every element
\* whose key is not smaller than its own.
InsertSorted(sorted, x) ==
    LET before == {i \in 1..Len(sorted) : ~KeyLess(SortKey(sorted[i]), SortKey(x))}
        n == Cardinality(before)
    IN  SubSeq(sorted, 1, n) \o <<x>> \o SubSeq(sorted, n + 1, Len(sorted))

RECURSIVE SortPrefix(_, _)
SortPrefix(list, n) ==
    IF n = 0 THEN <<>> ELSE InsertSorted(SortPrefix(list, n - 1), list[n])

_sort_items(list) == SortPrefix(list, Len(list))

\* ------------------------------------------------------------------------
\* recommend, continued
\* ------------------------------------------------------------------------
\* As TrackModeSucceeds, without the test: the track attempt always returns.
TrackModeSucceeds_Always(list) == TRUE

\* As TrackModeSucceeds, off by one: a single candidate does not count.
TrackModeSucceeds_OffByOne(list) == Len(list) > 1

\* `if items` on line 30
TrackModeSucceeds(list) == list # <<>>

\* recommend, lines 30-39: return the track-mode result, or fall through.
TrackFinish ==
    /\ pc = "track_done"
    /\ IF TrackModeSucceeds(items)
       THEN /\ items' = _sort_items(items)
            /\ result' = [mode |-> "track",
                          resolved_track |-> resolved_track,
                          resolved_artist |-> resolved_artist,
                          query_raw |-> raw,
                          items |-> _sort_items(items),
                          message |-> "track based"]
            /\ pc' = "done"
       ELSE /\ pc' = "resolve_artist"
            /\ UNCHANGED <<items, result>>
    /\ UNCHANGED <<reqVars, resVars, phase, trkVars, fbVars, pIdx, envVars,
                   logVars, lastChain, probe>>
    /\ UNCHANGED <<query_artist_tag_fetches, lastAccess, uiVars, returned, heap>>

\* As FallbackArtist, always the whole input.
FallbackArtist_RawOnly(a, r) == r

\* `fallback_artist = artist or raw`
FallbackArtist(a, r) == PyOr(a, r)

\* _resolve_artist, given what mb.search_artist did; None when it gives up.
_resolve_artist(a, o) ==
    IF o.ok /\ o.data.body # <<>>
    THEN normalize_space(PyOr(o.data.body[1].name, a))
    ELSE None

\* recommend, lines 42-43.
ResolveArtist ==
    /\ pc = "resolve_artist"
    /\ LET fb == FallbackArtist(artist, raw)
       IN  /\ fallback_artist' = fb
           /\ \E o \in CachedFetch(ArtistKey(fb), ArtistResponses) :
                /\ resolved_artist' = PyOr(_resolve_artist(fb, o), fb)
                /\ cache' = o.cache
                /\ cacheOps' = cacheOps \cup o.ops
    /\ calls' = calls \cup {"mb.search_artist"}
    /\ pc' = "artist_get_similar"
    /\ UNCHANGED <<reqVars, resolved_track, phase, trkVars, fbVars, items, pIdx,
                   result, now, raisedBy, validReturned, lastChain, probe>>
    /\ UNCHANGED <<query_artist_tag_fetches, lastAccess, uiVars, returned, heap>>

\* ------------------------------------------------------------------------
\* _recommend_by_artist_fallback
\* ------------------------------------------------------------------------
\* Line 183: the similar-artists call is not guarded.
ArtistGetSimilar ==
    /\ pc = "artist_get_similar"
    /\ calls' = calls \cup {"lastfm.artist_get_similar"}
    /\ \/ /\ raisedBy' = "lastfm.artist_get_similar"
          /\ pc' = "raised"
          /\ UNCHANGED <<phase, fbVars, items, probe>>
       \/ \E answer \in ListsUpTo(SimilarArtists, MaxSimilar) :
            /\ sim_artists' = answer
            /\ top_tracks' = <<>>
            /\ rank' = 1
            /\ items' = <<>>
            /\ probe' = <<>>
            /\ phase' = "fallback"
            /\ pc' = "fallback_artists"
            /\ raisedBy' = raisedBy
    /\ UNCHANGED <<reqVars, resVars, trkVars, pIdx, result, envVars, cacheOps,
                   validReturned, lastChain>>
    /\ UNCHANGED <<query_artist_tag_fetches, lastAccess, uiVars, returned, heap>>

\* One pass of the outer loop up to line 195: skip a nameless artist, else
\* fetch its top tracks; that call is not guarded.
FallbackArtistStep ==
    /\ pc = "fallback_artists"
    /\ sim_artists # <<>>
    /\ IF ~Truthy(Head(sim_artists).name)
       THEN /\ sim_artists' = Tail(sim_artists)
            /\ UNCHANGED <<pc, top_tracks, calls, raisedBy>>
       ELSE /\ calls' = calls \cup {"lastfm.artist_get_top_tracks"}
            /\ \/ /\ raisedBy' = "lastfm.artist_get_top_tracks"
                  /\ pc' = "raised"
                  /\ UNCHANGED <<sim_artists, top_tracks>>
               \/ \E answer \in ListsUpTo(TopTracks, MaxTop) :
                    /\ top_tracks' = answer
                    /\ pc' = "fallback_tracks"
                    /\ UNCHANGED <<sim_artists, raisedBy>>
    /\ lastChain' = <<>>
    /\ UNCHANGED <<reqVars, resVars, phase, trkVars, rank, items, pIdx, result,
                   envVars, cacheOps, validReturned, probe>>
    /\ UNCHANGED <<query_artist_tag_fetches, lastAccess, uiVars, returned, heap>>

\* The outer loop ran out of similar artists: line 230 calls _attach_preview.
FallbackArtistsEnd ==
    /\ pc = "fallback_artists"
    /\ sim_artists = <<>>
    /\ pc' = "attach_preview"
    /\ pIdx' = 1
    /\ lastChain' = <<>>
    /\ UNCHANGED <<reqVars, resVars, phase, trkVars, fbVars, items, result,
                   envVars, logVars, probe>>
    /\ UNCHANGED <<query_artist_tag_fetches, lastAccess, uiVars, returned, heap>>

TagsFound(answer) == answer # TagFail /\ answer # <<>>

\* As _get_fallback_tags_for_track, without the `if tags` tests: the first
\* lookup that does not raise wins, even with no tags.
_get_fallback_tags_FirstAnswer(similar_artist_tags, query_artist_tags, track_tags) ==
    IF similar_artist_tags # TagFail THEN similar_artist_tags
    ELSE IF query_artist_tags # TagFail THEN query_artist_tags
    ELSE IF track_tags # TagFail THEN track_tags
    ELSE <<>>

\* _get_fallback_tags_for_track, given the answers the three lookups give
\* when they are made.
_get_fallback_tags_for_track(similar_artist_tags, query_artist_tags, track_tags) ==
    IF TagsFound(similar_artist_tags) THEN similar_artist_tags
    ELSE IF TagsFound(query_artist_tags) THEN query_artist_tags
    ELSE IF TagsFound(track_tags) THEN track_tags
    ELSE <<>>

\* The lookups _get_fallback_tags_for_track makes, in order: a lookup is
\* made only when the ones before it found nothing.
FallbackTagCalls(t, a, similar_artist, query_artist, oa, ob, oc) ==
    <<Attempt("lastfm.artist_get_toptags", <<similar_artist>>, oa)>>
    \o (IF TagsFound(oa) THEN <<>>
        ELSE <<Attempt("lastfm.artist_get_toptags", <<query_artist>>, ob)>>
             \o (IF TagsFound(ob) THEN <<>>
                 ELSE <<Attempt("lastfm.track_get_toptags", <<t, a>>, oc)>>))

\* The answers of the three lookups, those of lookups that are not made
\* left out (written as no tags).
ChainAnswers ==
    {<<oa, <<>>, <<>>>> : oa \in {x \in TagAnswers : TagsFound(x)}}
    \cup {<<oa, ob, <<>>>> : oa \in {x \in TagAnswers : ~TagsFound(x)},
                             ob \in {x \in TagAnswers : TagsFound(x)}}
    \cup {<<oa, ob, oc>> : oa \in {x \in TagAnswers : ~TagsFound(x)},
                           ob \in {x \in TagAnswers : ~TagsFound(x)},
                           oc \in TagAnswers}

Range(f) == {f[i] : i \in DOMAIN f}

\* LastFMClient._get, lines 17-29: every call goes to the network, nothing is
\* looked up or stored.  The number of requests the artist tag lookups of
\* `made` send for the artist `key`.
NetworkRequests(made, key) ==
    Cardinality({i \in DOMAIN made :
        made[i].method = "lastfm.artist_get_toptags" /\ made[i].key = key})

\* `if len(items) >= limit_tracks: break`
LimitReached(list, lim) == Len(list) >= lim

\* One pass of the inner loop, lines 196-225, with the outer break of lines
\* 227-228 when the inner loop breaks.
FallbackTrackStep ==
    /\ pc = "fallback_tracks"
    /\ top_tracks # <<>>
    /\ LET a == Head(sim_artists)
           t == Head(top_tracks)
           t_artist == PyOr(t.artist, a.name)
       IN  IF ~Truthy(t.name)
           THEN /\ top_tracks' = Tail(top_tracks)
                /\ lastChain' = <<>>
                /\ UNCHANGED <<pc, sim_artists, rank, items, pIdx, logVars, probe,
                               query_artist_tag_fetches>>
           ELSE \E o \in ChainAnswers :
                  LET oa == o[1]
                      ob == o[2]
                      oc == o[3]
                      tags == _get_fallback_tags_for_track(oa, ob, oc)
                      made == FallbackTagCalls(t.name, t_artist, a.name,
                                               resolved_artist, oa, ob, oc)
                      item == TrackRecommendation(t.name, t_artist, rank,
                                  _safe_float(a.match), tags,
                                  Reason("Top track from similar artist", a.name, tags))
                  IN  /\ items' = Append(items, item)
                      /\ probe' = Append(probe, Emitted(t.name, t_artist, rank, "chain"))
                      /\ lastChain' = made
                      /\ calls' = calls \cup {c.method : c \in Range(made)}
                      /\ query_artist_tag_fetches' =
                            query_artist_tag_fetches + NetworkRequests(made, <<resolved_artist>>)
                      /\ UNCHANGED <<raisedBy, cacheOps, validReturned>>
                      /\ rank' = rank + 1
                      /\ IF LimitReached(Append(items, item), limit_tracks)
                         THEN /\ pc' = "attach_preview"
                              /\ pIdx' = 1
                              /\ top_tracks' = <<>>
                              /\ sim_artists' = <<>>
                         ELSE /\ top_tracks' = Tail(top_tracks)
                              /\ UNCHANGED <<pc, pIdx, sim_artists>>
    /\ UNCHANGED <<reqVars, resVars, phase, trkVars, result, envVars>>
    /\ UNCHANGED <<lastAccess, uiVars, returned, heap>>

\* The inner loop ran out of top tracks: lines 227-228, then the next artist.
FallbackTracksEnd ==
    /\ pc = "fallback_tracks"
    /\ top_tracks = <<>>
    /\ IF LimitReached(items, limit_tracks)
       THEN /\ pc' = "attach_preview"
            /\ pIdx' = 1
            /\ sim_artists' = <<>>
       ELSE /\ pc' = "fallback_artists"
            /\ pIdx' = pIdx
            /\ sim_artists' = Tail(sim_artists)
    /\ lastChain' = <<>>
    /\ UNCHANGED <<reqVars, resVars, phase, trkVars, top_tracks, rank, items,
                   result, envVars, logVars, probe>>
    /\ UNCHANGED <<query_artist_tag_fetches, lastAccess, uiVars, returned, heap>>

\* recommend, lines 45-61.
FallbackFinish ==
    /\ pc = "fallback_done"
    /\ IF items = <<>>
       THEN /\ result' = [mode |-> "artist_fallback",
                          resolved_track |-> None,
                          resolved_artist |-> resolved_artist,
                          query_raw |-> raw,
                          items |-> <<>>,
                          message |-> "no recommendation"]
            /\ items' = items
       ELSE /\ result' = [mode |-> "artist_fallback",
                          resolved_track |-> None,
                          resolved_artist |-> resolved_artist,
                          query_raw |-> raw,
                          items |-> _sort_items(items),
                          message |-> "artist based"]
            /\ items' = _sort_items(items)
    /\ pc' = "done"
    /\ UNCHANGED <<reqVars, resVars, phase, trkVars, fbVars, pIdx, envVars,
                   logVars, lastChain, probe>>
    /\ UNCHANGED <<query_artist_tag_fetches, lastAccess, uiVars, returned, heap>>

Next ==
    \/ Recommend
    \/ ResolveTrackArtist
    \/ TrackGetSimilar
    \/ TrackLoopStep
    \/ TrackLoopEnd
    \/ AttachPreviewStep
    \/ AttachPreviewEnd
    \/ TrackFinish
    \/ ResolveArtist
    \/ ArtistGetSimilar
    \/ FallbackArtistStep
    \/ FallbackArtistsEnd
    \/ FallbackTrackStep
    \/ FallbackTracksEnd
    \/ FallbackFinish

Spec == Init /\ [][Next]_vars

\* ------------------------------------------------------------------------
\* _sort_items on its own
\* ------------------------------------------------------------------------
SortPreviews == {NoUrl, "", "http://p"}

\* Absent, -1.5, -1.0, -0.5, 0.0 and 1.0
SortSimilarities == {NoFloat} \cup {Float(n) : n \in {-3, MinusOne, -1, 0, 2}}

SortKinds ==
    {[TrackRecommendation(<<"x">>, <<"A">>, 0, sim, <<>>, Reason("", <<>>, <<>>))
        EXCEPT !.preview_url = p] : p \in SortPreviews, sim \in SortSimilarities}

\* The list with every item's rank set to its position.
Ranked(list) == [i \in 1..Len(list) |-> [list[i] EXCEPT !.rank = i]]

SortInit ==
    /\ pc = "sort_input"
    /\ items \in {Ranked(l) : l \in ListsUpTo(SortKinds, MaxSort)}
    /\ Fresh

\* _sort_items applied to items; the sorted list is kept in result.
SortOnly ==
    /\ pc = "sort_input"
    /\ result' = [NoResult EXCEPT !.items = _sort_items(items)]
    /\ pc' = "sorted"
    /\ UNCHANGED <<reqVars, resVars, phase, trkVars, fbVars, items, pIdx,
                   envVars, logVars, lastChain, probe>>
    /\ UNCHANGED <<query_artist_tag_fetches, lastAccess, uiVars, returned, heap>>

SortNext == SortOnly

SortSpec == SortInit /\ [][SortNext]_vars

\* ------------------------------------------------------------------------
\* Favorites (utils/favorites.py)
\* ------------------------------------------------------------------------
\* str.lower() on the letters that occur in names and tags.
LowerCase(c) ==
    CASE c = "A" -> "a" [] c = "B" -> "b" [] c = "C" -> "c" [] c = "P" -> "p"
      [] c = "Q" -> "q" [] c = "R" -> "r" [] c = "T" -> "t" [] c = "X" -> "x"
      [] c = "Y" -> "y" [] c = "Z" -> "z" [] OTHER -> c

lower(s) == [i \in 1..Len(s) |-> LowerCase(s[i])]

\* (s or "").strip().lower()
Folded(s) == lower(Strip(PyOr(s, <<>>)))

\* normalize_key: f"{t}|||{a}"
normalize_key(t, a) == Folded(t) \o <<"|", "|", "|">> \o Folded(a)

\* key.strip("|||"): what is left of the key without the "|" characters at
\* its ends, however many there are.
RECURSIVE StripBars(_)
StripBars(key) ==
    IF key # <<>> /\ Head(key) = "|" THEN StripBars(Tail(key))
    ELSE IF key # <<>> /\ key[Len(key)] = "|"
         THEN StripBars(SubSeq(key, 1, Len(key) - 1))
         ELSE key

\* The key of a stored item or of a recommendation.
KeyOf(it) == normalize_key(it.track, it.artist)

\* A dict from favorite key to item is the sequence of its values in
\* insertion order; the key of a value is KeyOf of it.
HasKey(m, key) == \E i \in DOMAIN m : KeyOf(m[i]) = key

\* m[key] = it: an existing key keeps its place.
MapPut(m, key, it) ==
    IF HasKey(m, key)
    THEN [i \in DOMAIN m |-> IF KeyOf(m[i]) = key THEN it ELSE m[i]]
    ELSE Append(m, it)

\* m.pop(key, None)
RECURSIVE MapPop(_, _)
MapPop(m, key) ==
    IF m = <<>> THEN <<>>
    ELSE IF KeyOf(Head(m)) = key THEN MapPop(Tail(m), key)
    ELSE <<Head(m)>> \o MapPop(Tail(m), key)

\* FavoritesStore.to_map on the stored items: later items replace earlier
\* ones of the same key, items with an empty key are left out.
RECURSIVE to_map(_)
to_map(stored) ==
    IF stored = <<>> THEN <<>>
    ELSE LET m == to_map(SubSeq(stored, 1, Len(stored) - 1))
             it == stored[Len(stored)]
         IN  IF StripBars(KeyOf(it)) # <<>> THEN MapPut(m, KeyOf(it), it) ELSE m

\* FavoritesStore.upsert: the stored items afterwards.
upsert(stored, item_dict) ==
    IF StripBars(KeyOf(item_dict)) = <<>> THEN stored
    ELSE MapPut(to_map(stored), KeyOf(item_dict), item_dict)

\* FavoritesStore.remove: the stored items afterwards.
remove(stored, t, a) ==
    IF HasKey(to_map(stored), normalize_key(t, a))
    THEN MapPop(to_map(stored), normalize_key(t, a))
    ELSE stored

\* FavoritesStore.export_snapshot_from_reco
export_snapshot_from_reco(it) ==
    [track |-> it.track, artist |-> it.artist, tags |-> it.tags,
     itunes_url |-> it.itunes_url, preview_url |-> it.preview_url,
     artwork_url |-> it.artwork_url, reason |-> it.reason]

\* FavoritesStore.favorite_artists
favorite_artists(stored) ==
    {lower(Strip(stored[i].artist)) : i \in {j \in DOMAIN stored : Truthy(stored[j].artist)}}

\* FavoritesStore.favorite_tags
favorite_tags(stored) ==
    UNION {{lower(Strip(t)) : t \in {x \in Range(stored[i].tags) : Truthy(x)}} : i \in DOMAIN stored}

\* ------------------------------------------------------------------------
\* MainWindow: personalization (ui/main_window.py)
\* ------------------------------------------------------------------------
\* _is_favorite
_is_favorite(it, fav_map) == HasKey(fav_map, KeyOf(it))

\* The terms of score().  A similarity is held in halves, so 100.0 times it
\* is 100 times the number of halves, halved.
\* As PreviewScore, with a bonus of 100.
PreviewScore_Hundred(it) == IF UrlTruthy(it.preview_url) THEN 100 ELSE 0

PreviewScore(it) == IF UrlTruthy(it.preview_url) THEN 1000 ELSE 0

SimilarityScore(it) == IF it.similarity.present THEN (it.similarity.val * 100) \div 2 ELSE 0

ArtistScore(it, fav_artists) == IF Folded(it.artist) \in fav_artists THEN 60 ELSE 0

TagOverlap(it, fav_tags) ==
    {lower(Strip(t)) : t \in {x \in Range(it.tags) : Truthy(x)}} \cap fav_tags

TagScore(it, fav_tags) ==
    IF it.tags # <<>> /\ fav_tags # {} THEN 10 * Cardinality(TagOverlap(it, fav_tags)) ELSE 0

\* As FavoriteScore, with half the bonus.
FavoriteScore_Forty(it, fav_map) == IF _is_favorite(it, fav_map) THEN 40 ELSE 0

FavoriteScore(it, fav_map) == IF _is_favorite(it, fav_map) THEN 80 ELSE 0

\* score(it) under the stored favorites and the favorites map.
score(it, stored, fav_map) ==
    PreviewScore(it) + SimilarityScore(it) + ArtistScore(it, favorite_artists(stored))
        + TagScore(it, favorite_tags(stored)) + FavoriteScore(it, fav_map)

\* As ScoreInsert, behind the elements with a larger score only: equal scores
\* change places.
ScoreInsert_BeforeEqual(sorted, x, sc) ==
    LET n == Cardinality({i \in 1..Len(sorted) : sc[sorted[i]] > sc[x]})
    IN  SubSeq(sorted, 1, n) \o <<x>> \o SubSeq(sorted, n + 1, Len(sorted))

\* sorted(items, key=score, reverse=True) is stable: x goes behind every
\* element whose score is not smaller than its own.
ScoreInsert(sorted, x, sc) ==
    LET n == Cardinality({i \in 1..Len(sorted) : sc[sorted[i]] >= sc[x]})
    IN  SubSeq(sorted, 1, n) \o <<x>> \o SubSeq(sorted, n + 1, Len(sorted))

RECURSIVE ScoreSortPrefix(_, _, _)
ScoreSortPrefix(list, n, sc) ==
    IF n = 0 THEN <<>> ELSE ScoreInsert(ScoreSortPrefix(list, n - 1, sc), list[n], sc)

\* _personalized_rerank of a list of objects (positions in objs).
_personalized_rerank(list, objs, stored, fav_map) ==
    LET sc == [i \in DOMAIN objs |-> score(objs[i], stored, fav_map)]
    IN  ScoreSortPrefix(list, Len(list), sc)

\* As WithRanks, without the assignment: every object keeps its rank.
WithRanks_Unchanged(objs, list) == objs

\* `for i, it in enumerate(list, start=1): it.rank = i` on the objects.
WithRanks(objs, list) ==
    [o \in DOMAIN objs |->
        IF \E i \in DOMAIN list : list[i] = o
        THEN [objs[o] EXCEPT !.rank = CHOOSE i \in DOMAIN list : list[i] = o]
        ELSE objs[o]]

\* [x for x in list if self._is_favorite(x)]
RECURSIVE FavoritesOf(_, _, _)
FavoritesOf(list, objs, fav_map) ==
    IF list = <<>> THEN <<>>
    ELSE (IF _is_favorite(objs[Head(list)], fav_map) THEN <<Head(list)>> ELSE <<>>)
         \o FavoritesOf(Tail(list), objs, fav_map)

\* The displayed list: the favorites of the full list when the box is
\* checked, else a copy of the full list.
Displayed(full, objs, fav_map, checked) ==
    IF checked THEN FavoritesOf(full, objs, fav_map) ELSE full

\* ------------------------------------------------------------------------
\* MainWindow: search flow and favorites (ui/main_window.py)
\* ------------------------------------------------------------------------
\* SearchHistoryStore(..., max_items=50)
max_items == 50

\* SearchHistoryStore.add of a stripped, non-empty query.
HistoryAdd(h, q) ==
    FirstN(<<q>> \o SelectSeq(h, LAMBDA x : lower(x) # lower(q)), max_items)

\* What can be typed into the input field.
InputTexts == { <<"q">>, <<SP, "r">> }

\* The recommendations a worker can hand over.
UiKinds ==
    { TrackRecommendation(<<"x">>, <<"A">>, 0, Float(1), << <<"p">> >>, Reason("", <<>>, <<>>)),
      TrackRecommendation(<<"y">>, <<"a">>, 0, Float(1), << <<"P">>, <<"r">> >>, Reason("", <<>>, <<>>)),
      [TrackRecommendation(<<"z">>, <<"B">>, 0, NoFloat, <<>>, Reason("", <<>>, <<>>))
          EXCEPT !.preview_url = "http://p"],
      TrackRecommendation(<<"X">>, <<"A", SP>>, 0, Float(2), << <<"r">> >>, Reason("", <<>>, <<>>)) }

\* The results recommend can return for a query: its items are in the order
\* of _sort_items.
Results(text) ==
    {[mode |-> IF l = <<>> THEN "artist_fallback" ELSE "track",
      resolved_track |-> None,
      resolved_artist |-> normalize_space(text),
      query_raw |-> normalize_space(text),
      items |-> _sort_items(l),
      message |-> IF l = <<>> THEN "no recommendation" ELSE "track based"]
        : l \in ListsUpTo(UiKinds, MaxItems)}

Positions(list) == [i \in 1..Len(list) |-> i]

\* on_search_clicked, lines 267-303, for the input text.  Binding self.thread
\* and self.worker anew drops the last references to a thread and a worker
\* that may still be running: the process may abort (QThread destroyed while
\* running) or go on with both workers.
StartSearch(text) ==
    /\ Strip(text) # <<>>
    /\ started < MaxSearches
    /\ \/ /\ workers # {}
          /\ pc' = "aborted"
          /\ UNCHANGED uiVars
       \/ /\ pc' = pc
          /\ history' = HistoryAdd(history, Strip(text))
          /\ _fav_map' = to_map(favs)
          /\ btn_search' = FALSE
          /\ status' = "searching"
          /\ _items' = <<>>
          /\ _all_items_cache' = <<>>
          /\ _result' = NoResult
          /\ shownFrom' = 0
          /\ started' = started + 1
          /\ workers' = workers \cup {[id |-> started + 1, text |-> Strip(text)]}
          /\ UNCHANGED <<favs, chk_favs_only>>
    /\ UNCHANGED <<svcVars, envVars, lastAccess, lastFavOp>>

\* The search button is clicked.
OnSearchClicked ==
    /\ pc = "ui"
    /\ btn_search
    /\ \E text \in InputTexts : StartSearch(text)

\* on_history_item_clicked: the query of a history entry is put into the
\* input field and searched.
OnHistoryItemClicked ==
    /\ pc = "ui"
    /\ \E i \in DOMAIN history : StartSearch(history[i])

\* on_recommend_finished, for the result res of worker w.
OnRecommendFinished ==
    /\ pc = "ui"
    /\ \E w \in workers : \E res \in Results(w.text) :
        LET all == _personalized_rerank(Positions(res.items), res.items, favs, _fav_map)
            ranked == WithRanks(res.items, all)
            shown == Displayed(all, ranked, _fav_map, chk_favs_only)
        IN  /\ btn_search' = TRUE
            /\ status' = (IF res.message # "" THEN res.message ELSE "Done")
            /\ _all_items_cache' = all
            /\ _items' = shown
            /\ _result' = [res EXCEPT !.items =
                              IF chk_favs_only THEN WithRanks(ranked, shown) ELSE ranked]
            /\ workers' = workers \ {w}
            /\ shownFrom' = w.id
    /\ UNCHANGED <<pc, favs, _fav_map, chk_favs_only, history, started>>
    /\ UNCHANGED <<svcVars, envVars, lastAccess, lastFavOp>>

\* on_recommend_error, for a worker whose recommend raised.
OnRecommendError ==
    /\ pc = "ui"
    /\ \E w \in workers : workers' = workers \ {w}
    /\ btn_search' = TRUE
    /\ status' = "Error"
    /\ UNCHANGED <<pc, favs, _fav_map, _result, _all_items_cache, _items,
                   chk_favs_only, history, started, shownFrom>>
    /\ UNCHANGED <<svcVars, envVars, lastAccess, lastFavOp>>

\* toggle_favorite(row), for a row of the table.
ToggleFavorite ==
    /\ pc = "ui"
    /\ \E row \in DOMAIN _items :
        LET it == _result.items[_items[row]]
            key == KeyOf(it)
            snap == export_snapshot_from_reco(it)
            stored == IF HasKey(_fav_map, key) THEN remove(favs, it.track, it.artist)
                      ELSE upsert(favs, snap)
            map == IF HasKey(_fav_map, key) THEN MapPop(_fav_map, key)
                   ELSE MapPut(_fav_map, key, snap)
            all == _personalized_rerank(_all_items_cache, _result.items, stored, map)
            shown == Displayed(all, _result.items, map, chk_favs_only)
        IN  /\ favs' = stored
            /\ _fav_map' = map
            /\ _all_items_cache' = all
            /\ _items' = shown
            /\ _result' = [_result EXCEPT !.items = WithRanks(@, shown)]
    /\ UNCHANGED <<pc, chk_favs_only, status, btn_search, history, workers, started,
                   shownFrom>>
    /\ UNCHANGED <<svcVars, envVars, lastAccess, lastFavOp>>

\* clear_favorites, confirmed: the table is filled again from _items as it is.
ClearFavorites ==
    /\ pc = "ui"
    /\ favs' = <<>>
    /\ _fav_map' = <<>>
    /\ UNCHANGED <<pc, _result, _all_items_cache, _items, chk_favs_only, status,
                   btn_search, history, workers, started, shownFrom>>
    /\ UNCHANGED <<svcVars, envVars, lastAccess, lastFavOp>>

\* on_toggle_favs_only: the box has changed its state.
OnToggleFavsOnly ==
    /\ pc = "ui"
    /\ chk_favs_only' = ~chk_favs_only
    /\ IF _all_items_cache = <<>>
       THEN UNCHANGED <<_items, _result>>
       ELSE LET shown == Displayed(_all_items_cache, _result.items, _fav_map,
                                   ~chk_favs_only)
            IN  /\ _items' = shown
                /\ _result' = [_result EXCEPT !.items = WithRanks(@, shown)]
    /\ UNCHANGED <<pc, favs, _fav_map, _all_items_cache, status, btn_search, history,
                   workers, started, shownFrom>>
    /\ UNCHANGED <<svcVars, envVars, lastAccess, lastFavOp>>

UiInit ==
    /\ pc = "ui"
    /\ items = <<>>
    /\ Fresh

UiNext ==
    \/ OnSearchClicked
    \/ OnHistoryItemClicked
    \/ OnRecommendFinished
    \/ OnRecommendError
    \/ ToggleFavorite
    \/ ClearFavorites
    \/ OnToggleFavsOnly

UiSpec == UiInit /\ [][UiNext]_vars

\* ------------------------------------------------------------------------
\* parse_user_query on its own
\* ------------------------------------------------------------------------
\* The pieces inputs are put together from: a letter, the word "by" between
\* spaces and in capitals between runs of whitespace, the three separators,
\* and a dash and a "by" with nothing around them.
ParseTokens ==
    { <<"a">>,
      <<SP, "b", "y", SP>>,
      <<TAB, "B", "y", SP, SP>>,
      <<SP, "-", SP>>,
      <<SP, EmDash, SP>>,
      <<SP, EnDash, SP>>,
      <<"-">>,
      <<"b", "y">> }

RECURSIVE Concat(_)
Concat(parts) == IF parts = <<>> THEN <<>> ELSE Head(parts) \o Concat(Tail(parts))

ParseInputs == {Concat(parts) : parts \in ListsUpTo(ParseTokens, MaxTokens)}

ParseInit ==
    /\ pc = "parse_input"
    /\ user_text \in ParseInputs
    /\ items = <<>>
    /\ NoRequest
    /\ FreshRest

\* parse_user_query applied to user_text.
ParseOnly ==
    /\ pc = "parse_input"
    /\ track' = parse_user_query(user_text)[1]
    /\ artist' = parse_user_query(user_text)[2]
    /\ pc' = "parsed"
    /\ UNCHANGED <<user_text, limit_tracks, raw, resVars, phase, trkVars, fbVars,
                   items, pIdx, result, envVars, logVars, lastChain, probe>>
    /\ UNCHANGED <<query_artist_tag_fetches, lastAccess, uiVars, returned, heap>>

ParseNext == ParseOnly

ParseSpec == ParseInit /\ [][ParseNext]_vars

\* ------------------------------------------------------------------------
\* The cached accessors on their own, with a clock
\* ------------------------------------------------------------------------
\* The clock advances by half the time to live.
TickStep == TTL \div 2

\* Names the accessors are called with.
CacheNames == { <<"q">>, <<"r">> }

\* What is noted of an accessor call with key k that ended as o.
Access(k, o) ==
    [key |-> k,
     stored |-> k \in DOMAIN cache,
     storedAt |-> IF k \in DOMAIN cache THEN cache[k].expiresAt - TTL ELSE 0,
     storedValue |-> IF k \in DOMAIN cache THEN cache[k].value ELSE JNull,
     at |-> now,
     served |-> IF ~o.ok THEN "failed" ELSE IF "set" \in o.ops THEN "network" ELSE "cache",
     value |-> o.data]

CacheInit ==
    /\ pc = "cache_idle"
    /\ items = <<>>
    /\ Fresh

\* MusicBrainzClient.search_artist -> _get("artist/", ...)
SearchArtistCall ==
    /\ pc = "cache_idle"
    /\ \E name \in CacheNames :
        \E o \in CachedFetch(ArtistKey(name), ArtistResponses) :
            /\ cache' = o.cache
            /\ lastAccess' = Access(ArtistKey(name), o)
    /\ UNCHANGED <<pc, svcVars, now, uiVars>>

\* ITunesClient.search_track
SearchTrackCall ==
    /\ pc = "cache_idle"
    /\ \E name \in CacheNames :
        \E o \in CachedFetch(ITunesKey(<<"x">>, name), {JNull} \cup Hits) :
            /\ cache' = o.cache
            /\ lastAccess' = Access(ITunesKey(<<"x">>, name), o)
    /\ UNCHANGED <<pc, svcVars, now, uiVars>>

\* Time passes.
Tick ==
    /\ pc = "cache_idle"
    /\ now < MaxTicks * TickStep
    /\ now' = now + TickStep
    /\ UNCHANGED <<pc, svcVars, cache, lastAccess, uiVars>>

CacheNext ==
    \/ SearchArtistCall
    \/ SearchTrackCall
    \/ Tick

CacheSpec == CacheInit /\ [][CacheNext]_vars

\* ------------------------------------------------------------------------
\* _recommend_by_artist_fallback on its own
\* ------------------------------------------------------------------------
\* The limits the function is called with.
Limits == 0..MaxLimit

\* _recommend_by_artist_fallback(artist, limit_tracks) is called.
FallbackInit ==
    /\ pc = "artist_get_similar"
    /\ user_text = <<>>
    /\ limit_tracks \in Limits
    /\ resolved_artist = <<"q">>
    /\ items = <<>>
    /\ FreshRest

FallbackNext ==
    \/ ArtistGetSimilar
    \/ FallbackArtistStep
    \/ FallbackArtistsEnd
    \/ FallbackTrackStep
    \/ FallbackTracksEnd
    \/ AttachPreviewStep
    \/ AttachPreviewEnd

FallbackSpec == FallbackInit /\ [][FallbackNext]_vars

\* ------------------------------------------------------------------------
\* Successive calls of recommend on one service
\* ------------------------------------------------------------------------
\* As Retire, the list object staying in use: the next call builds its
\* candidates in it.
Retire_Reuse(h, list) == h

\* `items: List[TrackRecommendation] = []` (lines 153 and 185) and the
\* constructor calls of lines 22, 32, 46 and 55: every call builds its
\* candidates in a list object of its own, so the list of a result that has
\* been returned is no longer the list under construction.  h holds the
\* contents of the list objects of returned results.
Retire(h, list) == Append(h, list)

\* The contents of list object n: that of a returned result, or the list
\* under construction.
Deref(n) == IF n \in DOMAIN heap THEN heap[n] ELSE items

\* The results after which the caller is followed further: track-mode
\* results of two items for a query that the catalog resolved, the first item
\* with tags and a preview, the second with neither but with artwork; every
\* cached lookup of such a call was answered and stored.
Followed(r) ==
    /\ r.mode = "track"
    /\ r.resolved_track = <<"T">>
    /\ Len(r.items) = 2
    /\ r.items[1].tags # <<>>
    /\ UrlTruthy(r.items[1].preview_url)
    /\ r.items[2].tags = <<>>
    /\ ~UrlTruthy(r.items[2].preview_url)
    /\ UrlTruthy(r.items[2].artwork_url)

\* recommend has returned; the caller keeps the result and calls recommend
\* again on the same service, whose cache is as the first call left it.
RecommendAgain ==
    /\ pc = "done"
    /\ returned = NoReturned
    /\ Followed(result)
    /\ returned' = [result EXCEPT !.items = Len(heap) + 1]
    /\ heap' = Retire(heap, result.items)
    /\ pc' = "idle"
    /\ user_text' = <<>>
    /\ limit_tracks' = 0
    /\ raw' = <<>>
    /\ track' = None
    /\ artist' = None
    /\ resolved_track' = None
    /\ fallback_artist' = None
    /\ resolved_artist' = None
    /\ phase' = ""
    /\ raws' = <<>>
    /\ idx' = 0
    /\ sim_artists' = <<>>
    /\ top_tracks' = <<>>
    /\ rank' = 0
    /\ items' = <<>>
    /\ pIdx' = 0
    /\ result' = NoResult
    /\ calls' = {}
    /\ raisedBy' = ""
    /\ cacheOps' = {}
    /\ validReturned' = 0
    /\ lastChain' = <<>>
    /\ probe' = <<>>
    /\ query_artist_tag_fetches' = 0
    /\ UNCHANGED <<envVars, lastAccess, uiVars>>

SessionNext ==
    \/ Next
    \/ RecommendAgain

SessionSpec == Init /\ [][SessionNext]_vars

\* ------------------------------------------------------------------------
\* FavoritesStore on its own (utils/favorites.py)
\* ------------------------------------------------------------------------
\* How many items the store is let grow to.
MaxFavs == 2

\* The track and artist names the store is called with: a name, the same
\* name in another case with a blank after it, a name made of the
\* character the key is joined with, and the empty name.
FavNames == { <<"T">>, <<"t", SP>>, <<"|">>, <<>> }

\* The item dicts given to upsert: two snapshots for every pair of names.
FavItems ==
    { [track |-> t, artist |-> a, tags |-> g, itunes_url |-> None,
       preview_url |-> None, artwork_url |-> None, reason |-> None] :
        t \in FavNames, a \in FavNames, g \in { <<>>, << <<"a">> >> } }

FavInit ==
    /\ pc = "favs"
    /\ items = <<>>
    /\ Fresh

\* favs.upsert(item_dict)
StoreUpsert ==
    /\ pc = "favs"
    /\ \E item_dict \in FavItems :
        /\ Len(upsert(favs, item_dict)) <= MaxFavs
        /\ favs' = upsert(favs, item_dict)
        /\ lastFavOp' = [op |-> "upsert", track |-> item_dict.track,
                         artist |-> item_dict.artist, item |-> item_dict,
                         before |-> favs]
    /\ UNCHANGED <<pc, svcVars, envVars, lastAccess>>
    /\ UNCHANGED <<_fav_map, _result, _all_items_cache, _items, chk_favs_only, status,
                   btn_search, history, workers, started, shownFrom>>

\* favs.remove(track, artist)
StoreRemove ==
    /\ pc = "favs"
    /\ \E t \in FavNames, a \in FavNames :
        /\ favs' = remove(favs, t, a)
        /\ lastFavOp' = [op |-> "remove", track |-> t, artist |-> a, before |-> favs]
    /\ UNCHANGED <<pc, svcVars, envVars, lastAccess>>
    /\ UNCHANGED <<_fav_map, _result, _all_items_cache, _items, chk_favs_only, status,
                   btn_search, history, workers, started, shownFrom>>

\* favs.clear(): save([])
StoreClear ==
    /\ pc = "favs"
    /\ favs' = <<>>
    /\ lastFavOp' = [op |-> "clear", track |-> None, artist |-> None, before |-> favs]
    /\ UNCHANGED <<pc, svcVars, envVars, lastAccess>>
    /\ UNCHANGED <<_fav_map, _result, _all_items_cache, _items, chk_favs_only, status,
                   btn_search, history, workers, started, shownFrom>>

FavNext ==
    \/ StoreUpsert
    \/ StoreRemove
    \/ StoreClear

FavSpec == FavInit /\ [][FavNext]_vars

\* ------------------------------------------------------------------------
\* Properties
\* ------------------------------------------------------------------------
FallbackCalls ==
    {"mb.search_artist", "lastfm.artist_get_similar", "lastfm.artist_get_top_tracks",
     "lastfm.artist_get_toptags"}

CandidateListCalls ==
    {"lastfm.track_get_similar", "lastfm.artist_get_similar",
     "lastfm.artist_get_top_tracks"}

Terminal == pc \in {"done", "raised"}

\* C1. Track-mode precedence: once track_get_similar has returned at least
\* one entry with both a track name and an artist name, the request makes no
\* artist-fallback provider call, does not raise, and the result it returns
\* has mode "track".
C1_TrackModePrecedence ==
    validReturned >= 1 =>
        /\ calls \cap FallbackCalls = {}
        /\ pc # "raised"
        /\ fallback_artist = None
        /\ pc = "done" => result.mode = "track"

C1_Witness ==
    /\ pc = "done"
    /\ validReturned >= 1
    /\ TrackAttempted(track, artist)
    /\ result.mode = "track"
    /\ result.items # <<>>

\* The track attempt was skipped or its similar-tracks call returned no
\* entry with both names.
TrackAttemptGaveNothing ==
    \/ ~(Truthy(track) /\ Truthy(artist))
    \/ /\ "lastfm.track_get_similar" \in calls
       /\ raisedBy # "lastfm.track_get_similar"
       /\ validReturned = 0

\* C2. Fallback triggering: a request with non-empty input whose track attempt
\* was skipped or gave no valid candidate has, when it ends, gone on to the
\* artist fallback with fallback_artist = the parsed artist if there is one,
\* else the whole normalized input; the result it returns has mode
\* "artist_fallback", with no items exactly when the fallback produced no
\* candidate.
C2_FallbackTriggering ==
    (Terminal /\ raw # <<>> /\ TrackAttemptGaveNothing) =>
        /\ fallback_artist = (IF Truthy(artist) THEN artist ELSE raw)
        /\ "lastfm.artist_get_similar" \in calls
        /\ pc = "done" =>
            /\ result.mode = "artist_fallback"
            /\ Len(result.items) = Len(probe)

C2_Witness ==
    /\ pc = "done"
    /\ Truthy(track)
    /\ Truthy(artist)
    /\ "lastfm.track_get_similar" \in calls
    /\ validReturned = 0
    /\ fallback_artist = artist
    /\ result.mode = "artist_fallback"
    /\ result.items = <<>>

AllWhitespace(s) == \A i \in 1..Len(s) : IsSpace(s[i])

\* C3. Empty input is terminal: a request whose input is empty or all
\* whitespace ends at once with mode "none" and no items, having called no
\* provider and not touched the cache.
C3_EmptyInputTerminal ==
    (pc # "idle" /\ AllWhitespace(user_text)) =>
        /\ pc = "done"
        /\ result.mode = "none"
        /\ result.items = <<>>
        /\ calls = {}
        /\ cacheOps = {}
        /\ cache = <<>>

C3_Witness ==
    /\ pc = "done"
    /\ user_text = <<SP, TAB>>
    /\ result.mode = "none"
    /\ calls = {}

\* C4. Tag fallback chain: the tag lookups made for a fallback candidate are,
\* in order, the top tags of the similar artist that produced it, of the
\* query artist, and of the candidate track itself; each one is made only
\* when those before it raised or gave nothing, and the candidate's tags are
\* the answer of the first one that gave tags, or [] when none did.
C4_TagFallbackChain ==
    (phase = "fallback" /\ lastChain # <<>>) =>
        LET it == items[Len(items)]
            n == Len(lastChain)
            last == lastChain[n]
        IN  /\ n <= 3
            /\ lastChain[1].method = "lastfm.artist_get_toptags"
            /\ lastChain[1].key = <<it.reason.of>>
            /\ n >= 2 => /\ lastChain[2].method = "lastfm.artist_get_toptags"
                         /\ lastChain[2].key = <<resolved_artist>>
            /\ n = 3 => /\ lastChain[3].method = "lastfm.track_get_toptags"
                        /\ lastChain[3].key = <<it.track, it.artist>>
            /\ \A i \in 1..(n - 1) : lastChain[i].answer \in {TagFail, <<>>}
            /\ IF last.answer \in {TagFail, <<>>}
               THEN n = 3 /\ it.tags = <<>>
               ELSE it.tags = last.answer

C4_Witness ==
    /\ phase = "fallback"
    /\ Len(lastChain) = 3
    /\ lastChain[1].answer = <<>>
    /\ lastChain[2].answer = TagFail
    /\ lastChain[3].answer = <<"pop", "dance">>
    /\ items[Len(items)].tags = <<"pop", "dance">>

C6_PartialResultsReturned == pc = "raised" => items = <<>>

InPipeline ==
    pc \in {"track_loop", "fallback_artists", "fallback_tracks", "attach_preview",
            "track_done", "fallback_done"}

\* C7. Per-candidate lookup failures are local: up to the sort, the list holds
\* exactly the candidates emitted, in emission order (in track mode, one per
\* similar track with both names); a candidate whose tag lookup failed has no
\* tags, one whose enrichment lookup failed or matched nothing has no preview,
\* artwork or storefront URL, and when _attach_preview has returned every
\* candidate has had its lookup.
C7_LookupFailuresAreLocal ==
    InPipeline =>
        /\ Len(items) = Len(probe)
        /\ (phase = "track" /\ pc # "track_loop") => Len(items) = validReturned
        /\ \A i \in DOMAIN probe :
            /\ items[i].track = probe[i].track
            /\ items[i].artist = probe[i].artist
            /\ items[i].rank = probe[i].rank
            /\ probe[i].tags = "failed" => items[i].tags = <<>>
            /\ probe[i].enrich \in {"failed", "no match"} =>
                /\ items[i].preview_url = NoUrl
                /\ items[i].artwork_url = NoUrl
                /\ items[i].itunes_url = NoUrl
            /\ pc = "attach_preview" => (probe[i].enrich = "pending" <=> i >= pIdx)
            /\ pc \in {"track_done", "fallback_done"} => probe[i].enrich # "pending"

C7_Witness ==
    /\ pc = "track_done"
    /\ Len(items) = 2
    /\ probe[1].tags = "failed"
    /\ probe[1].enrich = "failed"
    /\ items[1].tags = <<>>
    /\ items[1].preview_url = NoUrl
    /\ probe[2].enrich = "hit"
    /\ items[2].preview_url = "http://p"

\* What mb.search_recording / mb.search_artist returned to the resolver: the
\* stored response, or nothing when the call failed.
RecordingsFound ==
    IF RecordingKey(track, artist) \in DOMAIN cache
    THEN cache[RecordingKey(track, artist)].value.body ELSE <<>>

ArtistsFound ==
    IF ArtistKey(fallback_artist) \in DOMAIN cache
    THEN cache[ArtistKey(fallback_artist)].value.body ELSE <<>>

\* _resolve_artist gives nothing on an empty result or an error, and the
\* pipeline then uses the unresolved string; neither resolver raises.
ArtistResolverDegrades ==
    /\ pc = "artist_get_similar" =>
        /\ ArtistsFound = <<>> => resolved_artist = fallback_artist
        /\ ArtistsFound # <<>> =>
            resolved_artist = PyOr(normalize_space(PyOr(ArtistsFound[1].name, fallback_artist)),
                                   fallback_artist)
    /\ raisedBy \notin {"mb.search_recording", "mb.search_artist"}

\* C8 as claimed. _resolve_track_artist returns its inputs unchanged on an
\* empty result or a failed call, and otherwise the top result's title (or the
\* original track) and its first artist-credit name (or the original artist),
\* as the catalog gives them.
C8_ResolverReturnsCatalogNames ==
    /\ pc = "track_get_similar" =>
        IF RecordingsFound = <<>>
        THEN resolved_track = track /\ resolved_artist = artist
        ELSE /\ resolved_track = PyOr(RecordingsFound[1].title, track)
             /\ resolved_artist = PyOr(RecordingsFound[1].name, artist)
    /\ ArtistResolverDegrades

\* C8, amended. As claimed, except that the title and the artist-credit name
\* are returned whitespace-normalized (trimmed, runs of whitespace collapsed).
C8_ResolverReturnsNormalizedNames ==
    /\ pc = "track_get_similar" =>
        IF RecordingsFound = <<>>
        THEN resolved_track = track /\ resolved_artist = artist
        ELSE /\ resolved_track = normalize_space(PyOr(RecordingsFound[1].title, track))
             /\ resolved_artist = normalize_space(PyOr(RecordingsFound[1].name, artist))
    /\ ArtistResolverDegrades

C8_Witness ==
    /\ pc = "track_get_similar"
    /\ RecordingsFound # <<>>
    /\ RecordingsFound[1].title = <<SP, "T">>
    /\ resolved_track = <<"T">>
    /\ resolved_artist = artist

HasPreview(x) == x.preview_url # NoUrl /\ x.preview_url # ""

C10_AbsentBelowEveryPresent ==
    pc = "sorted" =>
        \A i, j \in DOMAIN result.items :
            (/\ HasPreview(result.items[i]) = HasPreview(result.items[j])
             /\ ~result.items[i].similarity.present
             /\ result.items[j].similarity.present)
            => j < i

\* C10, amended. An absent similarity sorts as -1.0: an item without
\* similarity comes after every item of the same preview status whose
\* similarity is present and above -1.0, before every one whose similarity is
\* below -1.0, and keeps its input order with one whose similarity is -1.0.
C10_AbsentSortsAsMinusOne ==
    pc = "sorted" =>
        \A i, j \in DOMAIN result.items :
            LET x == result.items[i]
                y == result.items[j]
            IN  (/\ HasPreview(x) = HasPreview(y)
                 /\ ~x.similarity.present
                 /\ y.similarity.present)
                => /\ y.similarity.val > MinusOne => j < i
                   /\ y.similarity.val < MinusOne => i < j
                   /\ y.similarity.val = MinusOne => (i < j <=> x.rank < y.rank)

\* An item without similarity was put behind a later one with similarity -0.5.
C10_Witness ==
    /\ pc = "sorted"
    /\ Len(result.items) = 2
    /\ result.items[1].similarity = Float(-1)
    /\ ~result.items[2].similarity.present
    /\ HasPreview(result.items[1]) = HasPreview(result.items[2])
    /\ result.items[1].rank = 2

\* C11. Rank density of the pipeline result: in every result recommend
\* returns, the item at position i (counted from 1) has rank i.
C11_RankDensity ==
    pc = "done" => \A i \in DOMAIN result.items : result.items[i].rank = i

\* The objects that a step makes favorites: not a favorite before, a
\* favorite after, the list being the same.
BecameFavorite ==
    {o \in DOMAIN _result.items :
        /\ Len(_result'.items) = Len(_result.items)
        /\ favs' # favs
        /\ ~_is_favorite(_result.items[o], _fav_map)
        /\ _is_favorite(_result.items[o], _fav_map')}

\* By how much a step changes the personalization score of object o.
ScoreChange(o) ==
    score(_result'.items[o], favs', _fav_map') - score(_result.items[o], favs, _fav_map)

FoldedTags(it) == {lower(Strip(t)) : t \in {x \in Range(it.tags) : Truthy(x)}}

\* C12 as claimed. A step that toggles an item into the favorites raises the
\* score of the items that become favorites by exactly 80 and leaves the
\* score of every other item as it was.
C12_ToggleAddsExactlyEighty ==
    [][BecameFavorite # {} =>
        \A o \in DOMAIN _result.items :
            ScoreChange(o) = IF o \in BecameFavorite THEN 80 ELSE 0]_vars

\* C12, amended. Toggling item t into the favorites stores its snapshot, which
\* makes its artist a favorite artist and its tags favorite tags.  The score
\* of every item o then rises by 80 if o has the favorite key of t, plus 60
\* if o has the artist of t (trimmed, lower-cased) and that artist was not a
\* favorite artist before, plus 10 for each distinct tag (trimmed,
\* lower-cased) that o shares with t and that was not a favorite tag before;
\* so the toggled item gains at least 80, and an item that shares neither
\* key, artist nor tag with it keeps its score.
C12_ToggleAddsEightyAndPreferences ==
    [][BecameFavorite # {} =>
        \E t \in BecameFavorite :
            /\ favs' = Append(favs, export_snapshot_from_reco(_result.items[t]))
            /\ \A o \in DOMAIN _result.items :
                LET x == _result.items[o]
                    y == _result.items[t]
                IN  ScoreChange(o) =
                          (IF KeyOf(x) = KeyOf(y) THEN 80 ELSE 0)
                        + (IF Folded(x.artist) = Folded(y.artist)
                              /\ Folded(y.artist) \notin favorite_artists(favs)
                           THEN 60 ELSE 0)
                        + 10 * Cardinality((FoldedTags(x) \cap FoldedTags(y))
                                               \ favorite_tags(favs))]_vars

\* Of two items with the same artist, one has been toggled into the
\* favorites and the other has not.
C12_Witness ==
    /\ pc = "ui"
    /\ Len(_result.items) = 2
    /\ Len(favs) = 1
    /\ \E o, n \in DOMAIN _result.items :
        /\ _is_favorite(_result.items[o], _fav_map)
        /\ favs[1] = export_snapshot_from_reco(_result.items[o])
        /\ ~_is_favorite(_result.items[n], _fav_map)
        /\ Folded(_result.items[n].artist) = Folded(_result.items[o].artist)

\* The scorer applied to a list of the objects shown, under the present
\* favorites.
Rerank(list) == _personalized_rerank(list, _result.items, favs, _fav_map)

\* C13. Personalization idempotence: under the present favorites, the scorer
\* run on its own output returns that output, both for the list as the
\* worker delivered it and for the cached list in whatever order earlier
\* operations left it.
C13_RerankIdempotent ==
    /\ Rerank(Rerank(Positions(_result.items))) = Rerank(Positions(_result.items))
    /\ Rerank(Rerank(_all_items_cache)) = Rerank(_all_items_cache)

\* A result has been taken over whose two items differ and have the same
\* score, and the cached list is not in the order of delivery.
C13_Witness ==
    /\ pc = "ui"
    /\ shownFrom # 0
    /\ Len(_result.items) = 2
    /\ KeyOf(_result.items[1]) # KeyOf(_result.items[2])
    /\ score(_result.items[1], favs, _fav_map) = score(_result.items[2], favs, _fav_map)
    /\ _all_items_cache = <<2, 1>>

\* The score as C14 states it, names and tags compared trimmed and
\* lower-cased, a stored favorite being an item of the favorites store.
StatedScore(it, stored) ==
      (IF HasPreview(it) THEN 1000 ELSE 0)
    + (IF it.similarity.present THEN 50 * it.similarity.val ELSE 0)
    + (IF \E i \in DOMAIN stored : Truthy(stored[i].artist) /\ Folded(stored[i].artist) = Folded(it.artist)
       THEN 60 ELSE 0)
    + 10 * Cardinality({g \in FoldedTags(it) :
                            \E i \in DOMAIN stored : g \in FoldedTags(stored[i])})
    + (IF \E i \in DOMAIN stored : KeyOf(stored[i]) = KeyOf(it) THEN 80 ELSE 0)

PositionIn(list, o) == CHOOSE i \in DOMAIN list : list[i] = o

\* out holds the objects of in, by descending stated score, objects of equal
\* score in their order in in.
OrderedByStatedScore(out, in, objs, stored) ==
    /\ Len(out) = Len(in)
    /\ Range(out) = Range(in)
    /\ \A i, j \in DOMAIN out :
        i < j =>
            \/ StatedScore(objs[out[i]], stored) > StatedScore(objs[out[j]], stored)
            \/ /\ StatedScore(objs[out[i]], stored) = StatedScore(objs[out[j]], stored)
               /\ PositionIn(in, out[i]) < PositionIn(in, out[j])

\* C14. The scorer orders by descending total score, ties in input order:
\* what on_recommend_finished and toggle_favorite leave in _all_items_cache
\* is, in the state they leave, the delivered items (for toggle_favorite the
\* list cached before) ordered by the score 1000 for a preview + 100 x
\* similarity + 60 for a favorite artist + 10 per distinct favorite tag + 80
\* for a stored favorite.
C14_OrderedByScore ==
    [][/\ OnRecommendFinished =>
            OrderedByStatedScore(_all_items_cache', Positions(_result'.items),
                                 _result'.items, favs')
       /\ ToggleFavorite =>
            OrderedByStatedScore(_all_items_cache', _all_items_cache, _result'.items,
                                 favs')
      ]_vars

\* The item delivered second is cached first: it has the higher score, its
\* similarity being the lower.
C14_Witness ==
    /\ pc = "ui"
    /\ favs # <<>>
    /\ _all_items_cache = <<2, 1>>
    /\ _result.items[2].similarity.val < _result.items[1].similarity.val
    /\ StatedScore(_result.items[2], favs) > StatedScore(_result.items[1], favs)

\* The places where pattern p stands in text t, letters compared without
\* regard to case.
Occurrences(t, p) ==
    {i \in 1..Len(t) :
        /\ i + Len(p) - 1 <= Len(t)
        /\ lower(SubSeq(t, i, i + Len(p) - 1)) = lower(p)}

\* t cut at the first place where p stands: what is before and what is after.
CutAtFirst(t, p) ==
    LET i == Min(Occurrences(t, p))
    IN  <<SubSeq(t, 1, i - 1), SubSeq(t, i + Len(p), Len(t))>>

\* The places where " by " stands with something before it and after it.
ByPlaces(t) == {i \in Occurrences(t, <<SP, "b", "y", SP>>) : i > 1 /\ i + 4 <= Len(t)}

\* C15. parse_user_query on the whitespace-normalized text t: (None, None)
\* when t is empty; else, when t has the form "<A> by <B>" with the word
\* "by" in any case between spaces, (A, B) for the first such "by", whatever
\* dashes t holds; else the first of " - ", the em dash and the en dash
\* between spaces that stands in t cuts t at its first occurrence into
\* (left, right); else (None, t).
C15_ParsePriority ==
    pc = "parsed" =>
        LET t == normalize_space(user_text)
            by == <<SP, "b", "y", SP>>
            hyphen == <<SP, "-", SP>>
            em == <<SP, EmDash, SP>>
            en == <<SP, EnDash, SP>>
        IN  IF t = <<>> THEN track = None /\ artist = None
            ELSE IF ByPlaces(t) # {}
                 THEN LET i == Min(ByPlaces(t))
                      IN  /\ track = SubSeq(t, 1, i - 1)
                          /\ artist = SubSeq(t, i + 4, Len(t))
            ELSE IF Occurrences(t, hyphen) # {} THEN <<track, artist>> = CutAtFirst(t, hyphen)
            ELSE IF Occurrences(t, em) # {} THEN <<track, artist>> = CutAtFirst(t, em)
            ELSE IF Occurrences(t, en) # {} THEN <<track, artist>> = CutAtFirst(t, en)
            ELSE track = None /\ artist = t

\* "a<tab>By  a - a" has been parsed into ("a", "a - a").
C15_Witness ==
    /\ pc = "parsed"
    /\ user_text = <<"a", TAB, "B", "y", SP, SP, "a", SP, "-", SP, "a">>
    /\ track = <<"a">>
    /\ artist = <<"a", SP, "-", SP, "a">>

\* C16. Cache round-trip and expiry.  Of every entry stored, get returns the
\* value while less than the time to live has passed since set, and absent
\* once more has passed, the entry still being stored.  An accessor call
\* serves from the cache only a response that is stored and not older than
\* the time to live, and serves that very response; it serves a stored
\* response (other than None) younger than the time to live from the cache;
\* and once the time to live has passed it asks the provider again.
C16_RoundTripAndExpiry ==
    /\ \A k \in DOMAIN cache :
        LET age == now - (cache[k].expiresAt - TTL)
        IN  /\ age < TTL => CacheGet(cache, k, now) = cache[k].value
            /\ age > TTL => CacheGet(cache, k, now) = JNull
    /\ lastAccess.served # "" =>
        LET age == lastAccess.at - lastAccess.storedAt
        IN  /\ lastAccess.served = "cache" =>
                /\ lastAccess.stored
                /\ age <= TTL
                /\ lastAccess.value = lastAccess.storedValue
            /\ (lastAccess.stored /\ age < TTL /\ lastAccess.storedValue # JNull)
                => lastAccess.served = "cache"
            /\ (lastAccess.stored /\ age > TTL) => lastAccess.served # "cache"

\* A response stored longer ago than the time to live was not served: the
\* provider was asked again and gave another answer, which is stored now.
C16_Witness ==
    /\ pc = "cache_idle"
    /\ lastAccess.stored
    /\ lastAccess.at - lastAccess.storedAt > TTL
    /\ lastAccess.storedValue # JNull
    /\ lastAccess.served = "network"
    /\ lastAccess.value # lastAccess.storedValue
    /\ cache[lastAccess.key].expiresAt = now + TTL

\* C17. All provider calls go through the cache, so that a query repeated
\* within the time to live is not sent again: within one request, during
\* which no time passes, the top tags of the query artist are asked of the
\* provider at most once.
C17_RepeatedTagQueryServedFromCache == query_artist_tag_fetches <= 1

\* C18. Stale results are discarded: once no worker is running any more, a
\* result that is displayed is that of the search started last.
C18_StaleResultDiscarded ==
    (pc = "ui" /\ workers = {} /\ shownFrom # 0) => shownFrom = started

\* C19. The scorer is run again on every change of the favorites: the full
\* cached list is always in descending order of the personalization score
\* under the favorites as they are now.
C19_CacheOrderedUnderPresentFavorites ==
    pc = "ui" =>
        \A i, j \in DOMAIN _all_items_cache :
            i < j => score(_result.items[_all_items_cache[i]], favs, _fav_map)
                        >= score(_result.items[_all_items_cache[j]], favs, _fav_map)

\* C20. _recommend_by_artist_fallback stops at the limit: the list it returns
\* holds at most limit_tracks items, and once the items emitted have reached
\* limit_tracks the loops are left, so that no further top-track or tag
\* lookup is made.
C20_StopsAtLimit ==
    /\ pc = "fallback_done" => Len(items) <= limit_tracks
    /\ (pc \in {"fallback_artists", "fallback_tracks"} /\ items # <<>>)
        => Len(items) < limit_tracks

\* C21. Artist-fallback emission: every pass of the inner loop that emits a
\* candidate appends one item to the list, for the first top track not yet
\* visited of the first similar artist not yet done with: its track is that
\* top track's name, its artist the top track's credited artist or, that
\* being absent, the similar artist's name, its similarity the similar
\* artist's match score (absent when the score is missing or no number), and
\* its rank the number of candidates emitted so far; the lists of similar
\* artists and of top tracks are only ever shortened from the front, so that
\* candidates are emitted in provider order.
C21_FallbackEmission ==
    [][phase = "fallback" =>
        /\ Len(items') # Len(items) =>
            LET a == Head(sim_artists)
                t == Head(top_tracks)
                x == items'[Len(items')]
            IN  /\ pc = "fallback_tracks"
                /\ items' = Append(items, x)
                /\ x.track = t.name
                /\ x.track \notin {None, <<>>}
                /\ x.artist = (IF t.artist \in {None, <<>>} THEN a.name ELSE t.artist)
                /\ x.similarity = (IF a.match.kind = "num" THEN Float(a.match.val) ELSE NoFloat)
                /\ x.rank = Len(items) + 1
                /\ x.reason.of = a.name
        /\ (pc' \in {"fallback_artists", "fallback_tracks"}) =>
            /\ sim_artists' \in {sim_artists, Tail(sim_artists)}
            /\ (sim_artists' = sim_artists /\ pc = "fallback_tracks")
                => top_tracks' = Tail(top_tracks)
      ]_vars

\* Two candidates have been emitted and enriched: the first from the top
\* track without credited artist of similar artist A (match 1.0), the second
\* from a top track credited to C of similar artist B (no match score).
C21_Witness ==
    /\ pc = "fallback_done"
    /\ Len(items) = 2
    /\ items[1].artist = <<"A">>
    /\ items[1].reason.of = <<"A">>
    /\ items[1].similarity = Float(2)
    /\ items[1].rank = 1
    /\ items[2].artist = <<"C">>
    /\ items[2].reason.of = <<"B">>
    /\ items[2].similarity = NoFloat
    /\ items[2].rank = 2

\* C22. In every result recommend returns, whatever its mode, query_raw is the
\* whitespace-normalized input: trimmed, every run of whitespace one space.
C22_QueryRawNormalized ==
    pc = "done" => result.query_raw = normalize_space(user_text)

\* C23. Displayed rank density: whatever operations the window has gone
\* through, the item shown in row i (counted from 1) has rank i, so the ranks
\* of the displayed list are 1, 2, 3, ... without gap or duplicate.
C23_DisplayedRankDensity ==
    pc = "ui" => \A i \in DOMAIN _items : _result.items[_items[i]].rank = i

\* With the favorites-only filter on, the one item shown is the second of the
\* full list and has rank 1.
C23_Witness ==
    /\ pc = "ui"
    /\ chk_favs_only
    /\ Len(_all_items_cache) = 2
    /\ _items = <<_all_items_cache[2]>>
    /\ _result.items[_items[1]].rank = 1
    /\ _result.items[_all_items_cache[1]].rank = 1

\* C24. Candidates lacking required names are discarded: every item of the
\* list under construction and of every result returned has a track and an
\* artist that are neither absent nor empty, and a track-mode result holds
\* exactly as many items as the similar-tracks answer had entries with both
\* names.
C24_NamesRequired ==
    /\ \A i \in DOMAIN items : Truthy(items[i].track) /\ Truthy(items[i].artist)
    /\ pc = "done" =>
        /\ \A i \in DOMAIN result.items :
            Truthy(result.items[i].track) /\ Truthy(result.items[i].artist)
        /\ result.mode = "track" => Len(result.items) = validReturned

\* A track-mode result of one item whose rank is 2: the first entry of the
\* similar-tracks answer was dropped, the second was kept.
C24_Witness ==
    /\ pc = "done"
    /\ result.mode = "track"
    /\ Len(result.items) = 1
    /\ result.items[1].rank = 2
    /\ validReturned = 1

\* The result the caller holds, as it reads it.
ReturnedResult == [returned EXCEPT !.items = Deref(returned.items)]

C26_ModeConsistency ==
    pc = "done" =>
        /\ result.mode \in {"none", "track", "artist_fallback"}
        /\ result.mode = "none" =>
            /\ result.items = <<>>
            /\ result.resolved_track = None
            /\ result.resolved_artist = None
        /\ result.mode = "track" =>
            /\ result.items # <<>>
            /\ result.resolved_track # None
            /\ result.resolved_artist # None
        /\ result.mode = "artist_fallback" =>
            /\ result.resolved_track = None
            /\ result.resolved_artist # None
            /\ result.resolved_artist # <<>>

\* A fallback result after a track attempt that had resolved a track and
\* found nothing: the artist search answered with a name of one blank, and
\* the result carries the artist as parsed and no resolved track.
C26_Witness ==
    /\ pc = "done"
    /\ result.mode = "artist_fallback"
    /\ resolved_track = <<"T">>
    /\ result.resolved_track = None
    /\ ArtistsFound # <<>>
    /\ ArtistsFound[1].name = <<SP>>
    /\ result.resolved_artist = artist
    /\ result.items # <<>>

\* C27. Favorites-only filter: whatever operations the window has gone
\* through, while the favorites-only box is checked every item displayed is a
\* favorite, its key being in the favorites map.
C27_FilterShowsFavoritesOnly ==
    (pc = "ui" /\ chk_favs_only) =>
        \A i \in DOMAIN _items : _is_favorite(_result.items[_items[i]], _fav_map)

\* C28. At most one request in flight: while the window runs, at most one
\* worker has been started and not yet handled, and the search button is
\* enabled only when there is none.
C28_OneRequestInFlight ==
    pc = "ui" =>
        /\ Cardinality(workers) <= 1
        /\ btn_search => workers = {}

\* C29. A completed lookup is not repeated within the time to live: an
\* accessor call made while a value stored for its key, "no match" included,
\* is younger than the time to live sends no request and returns the stored
\* value.
C29_CompletedLookupNotRepeated ==
    (/\ lastAccess.served # ""
     /\ lastAccess.stored
     /\ lastAccess.at - lastAccess.storedAt < TTL)
    => /\ lastAccess.served = "cache"
       /\ lastAccess.value = lastAccess.storedValue

\* C30. A failed provider call leaves the cache unchanged: an accessor call
\* whose request raises creates and changes no cache entry, and afterwards
\* the cache still serves nothing for its key, so that the next call with
\* the same parameters asks the provider again.
C30_FailureLeavesCacheUnchanged ==
    [][(lastAccess' # lastAccess /\ lastAccess'.served = "failed") =>
        /\ cache' = cache
        /\ CacheGet(cache', lastAccess'.key, now') = JNull
      ]_vars

\* The request of a call failed whose key had a value stored longer ago than
\* the time to live: the old entry is still there as it was.
C30_Witness ==
    /\ pc = "cache_idle"
    /\ lastAccess.served = "failed"
    /\ lastAccess.stored
    /\ lastAccess.storedValue # JNull
    /\ lastAccess.at - lastAccess.storedAt > TTL
    /\ lastAccess.key \in DOMAIN cache
    /\ cache[lastAccess.key].value = lastAccess.storedValue
    /\ cache[lastAccess.key].expiresAt = lastAccess.storedAt + TTL

\* C31: the favorite key of an item is its track and its artist, trimmed and
\* lower-cased.  After any sequence of upsert, remove and clear the store
\* holds at most one entry per key; after upsert of an item whose key is not
\* empty the key is present with that item; after remove(track, artist) the
\* key is absent; and both leave the entries of all other keys as they were.
FavoriteKey(t, a) == <<Folded(t), Folded(a)>>

EntriesOf(stored, k) ==
    {i \in DOMAIN stored : FavoriteKey(stored[i].track, stored[i].artist) = k}

OtherEntries(stored, k) ==
    {stored[i] : i \in {j \in DOMAIN stored :
                          FavoriteKey(stored[j].track, stored[j].artist) # k}}

C31_FavoritesStoreKeying ==
    pc = "favs" =>
        LET k == FavoriteKey(lastFavOp.track, lastFavOp.artist)
        IN  /\ \A i, j \in DOMAIN favs :
                   FavoriteKey(favs[i].track, favs[i].artist)
                       = FavoriteKey(favs[j].track, favs[j].artist) => i = j
            /\ (lastFavOp.op = "upsert" /\ k # << <<>>, <<>> >>) =>
                   /\ \E i \in EntriesOf(favs, k) : favs[i] = lastFavOp.item
                   /\ OtherEntries(favs, k) = OtherEntries(lastFavOp.before, k)
            /\ lastFavOp.op = "remove" =>
                   /\ EntriesOf(favs, k) = {}
                   /\ OtherEntries(favs, k) = OtherEntries(lastFavOp.before, k)

\* C32: parse_user_query never returns a track without an artist.  Whatever
\* the input, a returned track comes with an artist, neither of them empty,
\* and no artist is returned only when the input is empty once normalized.
C32_NoTrackWithoutArtist ==
    pc = "parsed" =>
        /\ track # None => (artist # None /\ track # <<>> /\ artist # <<>>)
        /\ artist = None => normalize_space(user_text) = <<>>

\* "a - -" has been parsed into ("a", "-").
C32_Witness ==
    /\ pc = "parsed"
    /\ user_text = <<"a", SP, "-", SP, "-">>
    /\ track = <<"a">>
    /\ artist = <<"-">>

====
